---- MODULE Spec2Model ----
(***************************************************************************)
(* Client-side workflow orchestration of the maternal risk assessment UI   *)
(* (src/ui/app.js): the callback-driven request/response choreography     *)
(* between the page and the backend bridge, the view navigation, the       *)
(* language switch and the save / print workflows.                         *)
(*                                                                         *)
(* Execution is single threaded: every handler and every backend callback  *)
(* runs to completion, so each is one action.  A backend request is a      *)
(* record in the queue of its method until its callback is delivered; the  *)
(* callbacks of outstanding requests may be delivered in any order.        *)
(***************************************************************************)
EXTENDS Integers, Sequences, FiniteSets, TLC

VARIABLES
    backend,            \* app.js:364  TRUE once the channel callback assigned it
    handlers,           \* TRUE once initializeApp registered the event handlers
    currentLanguage,    \* app.js:6
    storedLanguage,     \* localStorage 'language' ("none" when never saved)
    activeViews,        \* the .view elements carrying the class 'active'
    btn,                \* per control: [disabled, text]
    currentAssessment,  \* window.currentAssessment: <<>> (undefined) or <<result>>
    patientId,          \* value of the #patient-id input, a sequence of characters
    resultsCard,        \* what the results card shows
    assessQ,            \* outstanding assess_risk requests
    idQ,                \* outstanding generate_patient_id requests, each with the result
                        \* its callback has captured and, in scored, the arguments of
                        \* the assess_risk request that result answered
    saveQ,              \* outstanding save_assessment requests
    pdfQ,               \* outstanding generate_pdf_report requests
    historyQ,           \* outstanding load_history requests, in the order of issue
    dashQ,              \* outstanding get_dashboard_stats requests, in the order of issue
    aboutTimers,        \* pending setTimeout(initFeatureImportanceChart) timers
    historyTable,       \* rows rendered in #history-tbody
    dashboard,          \* summary cards, risk factor table, the three chart handles and
                        \* the chart objects alive on each canvas
    taggedText,         \* the text of the [data-i18n] elements, by key
    labAvailable,       \* the #lab-available checkbox
    modelIndicator,     \* content of #model-indicator
    weight,             \* value of the #weight input: << >> when empty, else << kg >>
    height,             \* value of the #height input: << >> when empty, else << cm >>
    bmi,                \* what #bmi-value and #bmi-status show
    fields,             \* values of the other inputs of the form, by element id
    assessed,           \* the arguments of the assess_risk request whose result is in
                        \* window.currentAssessment (<< >> while there is none)
    ev,                 \* what the handler or callback that ran last reported
    steps               \* handlers and callbacks run so far

vars == << backend, handlers, currentLanguage, storedLanguage, activeViews, btn,
           currentAssessment, patientId, resultsCard, assessQ, idQ, saveQ, pdfQ,
           historyQ, dashQ, aboutTimers, historyTable, dashboard, taggedText,
           labAvailable, modelIndicator, weight, height, bmi, fields, assessed, ev,
           steps >>

\* the measurement part of the form with the localized texts
formVars == << taggedText, labAvailable, modelIndicator, weight, height, bmi, fields >>

(***************************************************************************)
(* Bounds of the model.                                                    *)
(***************************************************************************)
\* requests and timers that may be outstanding at once, over all methods
MaxInFlight == 2

\* handlers and callbacks in one run of the page
MaxSteps == 8

(***************************************************************************)
(* Values.                                                                 *)
(***************************************************************************)
Languages == {"en", "fil"}
Views == {"form", "history", "dashboard", "about"}
Controls == {"calculate-btn", "save-btn", "print-btn"}

\* the keys whose entry is the same string in the table of either language
SameText ==
    {"lang-filipino", "nav-dashboard", "label-patient-id", "hint-age", "label-systolic",
     "hint-systolic", "label-diastolic", "hint-diastolic", "bmi-normal", "hint-blood-sugar",
     "hint-hemoglobin", "table-patient-id", "dashboard-risk-factor"}

\* the keys of the two tables that the model refers to; both tables have the same keys
TableKeys ==
    {"app-title", "nav-dashboard", "btn-calculate", "btn-calculating", "model-full",
     "model-basic", "bmi-underweight", "bmi-normal", "bmi-overweight", "bmi-obese",
     "risk-low", "risk-moderate", "risk-high", "rec-low", "rec-moderate", "rec-high"}

\* translations[lang][key] is a string (and not undefined)
HasKey(lang, key) == key \in TableKeys

\* translations[lang][key], for a key of the tables
translations(lang, key) == IF key \in SameText THEN << "any", key >> ELSE << lang, key >>

\* text that is not taken from the translation table
Literal(s) == << "literal", s >>

GeneratingLabel == Literal("Generating PDF...")

NA == << "N", "/", "A" >>
FallbackId == << "P", "-", "2", "0", "2", "5", "-", "0", "0", "0", "1" >>

IsSpace(c) == c = " "

\* String.prototype.trim on a sequence of characters
RECURSIVE TrimLeft(_)
TrimLeft(s) == IF s # << >> /\ IsSpace(Head(s)) THEN TrimLeft(Tail(s)) ELSE s

RECURSIVE TrimRight(_)
TrimRight(s) ==
    IF s # << >> /\ IsSpace(s[Len(s)]) THEN TrimRight(SubSeq(s, 1, Len(s) - 1)) ELSE s

\* a trim that forgets the trailing white space
trim_LeftOnly(s) == TrimLeft(s)

trim(s) == TrimRight(TrimLeft(s))

\* the inputs of the form besides weight, height and patient id.  A numeric input holds
\* << >> (empty, or a text that is no number) or << t >>, the number t / 10
FieldNames == {"health-worker", "age", "systolic", "diastolic", "blood-sugar", "hemoglobin"}

\* what the user may type into the patient id field
PatientIdInputs ==
    { << " " >>,
      << " ", "N", "/", "A" >>,
      << " ", "P", "7", " " >> }

RemoveAt(q, i) == SubSeq(q, 1, i - 1) \o SubSeq(q, i + 1, Len(q))

\* one more handler or callback runs
Tick == steps < MaxSteps /\ steps' = steps + 1

InFlight ==
    Len(assessQ) + Len(idQ) + Len(saveQ) + Len(pdfQ) + Len(historyQ) + Len(dashQ) + aboutTimers

(***************************************************************************)
(* What the backend may answer.  A response is a text: `text` says whether *)
(* it is empty, not JSON at all, or JSON, and `json` is the parsed value.  *)
(***************************************************************************)
NoJson == [kind |-> "none"]

\* JSON.parse throws on the empty string and on text that is not JSON
Parses(resp) == resp.text = "json"

\* the value parseFloat and parseInt give for a text that is not a number; no number of
\* the model is this value
NaN == -999999

\* an assess_risk record; risk_level "", model_used "" and probabilities << >> stand for
\* a missing field and bmi NaN for a missing bmi; confidence is in tenths of a percent
\* and bmi in tenths
AssessJson(err, level, conf, probs, bmiValue, model, lab) ==
    [kind |-> "assess", error |-> err, risk_level |-> level, confidence |-> conf,
     probabilities |-> probs, bmi |-> bmiValue, model_used |-> model,
     lab_available |-> lab]

ResultHigh == AssessJson("", "High", 920, << 3, 12, 85 >>, 234, "full", TRUE)
ResultLow == AssessJson("", "Low", 885, << 90, 8, 2 >>, 196, "basic", FALSE)
ResultModerate == AssessJson("", "Moderate", 665, << 20, 60, 20 >>, 271, "basic", FALSE)
\* a record whose risk_level is none of the three levels
ResultUnknownLevel == AssessJson("", "Critical", 700, << 10, 20, 70 >>, 300, "full", TRUE)
ResultNoLevel == AssessJson("", "", 500, << 3, 12, 85 >>, NaN, "", FALSE)
ResultError == AssessJson("Model not loaded", "", 0, << >>, NaN, "", FALSE)

AssessResponses ==
    { [text |-> "json", json |-> ResultHigh],
      [text |-> "json", json |-> ResultLow],
      [text |-> "json", json |-> ResultNoLevel],
      [text |-> "json", json |-> ResultError],
      [text |-> "empty", json |-> NoJson],
      [text |-> "garbage", json |-> NoJson] }

\* the responses of AssessResponses and two more records
ScoreResponses ==
    AssessResponses \cup { [text |-> "json", json |-> ResultModerate],
                           [text |-> "json", json |-> ResultUnknownLevel] }

IdJson(ok, id) == [kind |-> "id", success |-> ok, patient_id |-> id]

IdResponses ==
    { [text |-> "json", json |-> IdJson(TRUE, << "G", "1" >>)],
      [text |-> "json", json |-> IdJson(TRUE, << >>)],
      [text |-> "json", json |-> IdJson(FALSE, << >>)],
      [text |-> "json", json |-> IdJson(FALSE, << "B", "9" >>)],
      [text |-> "empty", json |-> NoJson],
      [text |-> "garbage", json |-> NoJson] }

SaveJson(ok) == [kind |-> "save", success |-> ok]

\* the JSON text null
NullJson == [kind |-> "null"]

SaveResponses ==
    { [text |-> "json", json |-> SaveJson(TRUE)],
      [text |-> "json", json |-> SaveJson(FALSE)],
      [text |-> "json", json |-> NullJson],
      [text |-> "empty", json |-> NoJson],
      [text |-> "blank", json |-> NoJson],
      [text |-> "garbage", json |-> NoJson] }

PdfJson(ok) == [kind |-> "pdf", success |-> ok]

PdfResponses ==
    { [text |-> "json", json |-> PdfJson(TRUE)],
      [text |-> "json", json |-> PdfJson(FALSE)],
      [text |-> "garbage", json |-> NoJson] }

HistoryJson(n, wellFormed) == [kind |-> "history", data |-> n, wellFormed |-> wellFormed]

\* a get_dashboard_stats record: total stands for the four summary figures, and each
\* aggregate is 0 when the record does not carry it
StatsJson(err, total, dist, weekly, factors) ==
    [kind |-> "stats", error |-> err, total |-> total, risk_distribution |-> dist,
     weekly_assessments |-> weekly, risk_factors |-> factors]

\* what a handler or callback reported: the alert it raised ("" for none), what it
\* wrote to the console ("" for nothing worth telling apart) and whether it ended by an
\* uncaught exception
Event(alert, log, threw) == [alert |-> alert, log |-> log, threw |-> threw]

(***************************************************************************)
(* The page as the markup gives it, before any script has run.             *)
(***************************************************************************)
MarkupView == "form"

MarkupButton(id) == [disabled |-> FALSE, text |-> << "markup", id >>]

MarkupResultsCard ==
    [display |-> "none", riskText |-> << "markup", "risk-level" >>, riskClass |-> "",
     gauge |-> -1, gaugeColor |-> "", bars |-> << >>, recommendations |-> << "markup", "" >>]

\* the measurement inputs are empty, so no BMI is shown, and the laboratory values are
\* not marked as available
MarkupInput == << >>

MarkupBmi == [value |-> << >>, status |-> << >>]

MarkupLabAvailable == FALSE

\* the elements carrying data-i18n, by key, with the text the markup gives them: two keys
\* of the tables, one of them with the same string in either language, and one key that
\* the tables do not have
MarkupTagged ==
    [k \in {"app-title", "nav-dashboard", "footer-note"} |-> << "markup", k >>]

MarkupIndicator == << "markup", "model-indicator" >>

\* the chart handles are null (app.js:872-873, 1106) and no chart object exists
MarkupDashboard ==
    [cards |-> 0, factors |-> 0, riskPieChart |-> "null", weeklyLineChart |-> "null",
     featureImportanceChart |-> "null", pieData |-> 0, weeklyData |-> 0,
     live |-> [pie |-> 0, weekly |-> 0, feature |-> 0]]

Init ==
    /\ backend = FALSE
    /\ handlers = FALSE
    /\ storedLanguage \in {"none"} \cup Languages
    /\ currentLanguage = (IF storedLanguage = "none" THEN "en" ELSE storedLanguage)
    /\ activeViews = {MarkupView}
    /\ btn = [c \in Controls |-> MarkupButton(c)]
    /\ currentAssessment = << >>
    /\ patientId = << >>
    /\ resultsCard = MarkupResultsCard
    /\ assessQ = << >>
    /\ idQ = << >>
    /\ saveQ = << >>
    /\ pdfQ = << >>
    /\ historyQ = << >>
    /\ dashQ = << >>
    /\ aboutTimers = 0
    /\ historyTable = 0
    /\ dashboard = MarkupDashboard
    /\ taggedText = MarkupTagged
    /\ labAvailable = MarkupLabAvailable
    /\ modelIndicator = MarkupIndicator
    /\ weight = MarkupInput
    /\ height = MarkupInput
    /\ bmi = MarkupBmi
    /\ fields = [f \in FieldNames |-> MarkupInput]
    /\ assessed = << >>
    /\ ev = Event("", "", FALSE)
    /\ steps = 0

(***************************************************************************)
(* Rendering of a scoring result.                                          *)
(***************************************************************************)
toLowerCase(level) ==
    CASE level = "Low" -> "low"
      [] level = "Moderate" -> "moderate"
      [] level = "High" -> "high"
      [] level = "Critical" -> "critical"
      [] OTHER -> level

\* a rounding that drops the fraction
round_Truncates(tenths) == tenths \div 10

\* Math.round of a non-negative number given in tenths
round(tenths) == (tenths + 5) \div 10

riskKeys(level) ==
    CASE level = "Low" -> "risk-low"
      [] level = "Moderate" -> "risk-moderate"
      [] level = "High" -> "risk-high"
      [] OTHER -> "undefined"

gaugeColor(level) == IF level \in {"Low", "Moderate", "High"} THEN level ELSE "Low"

recommendationVariant(level) ==
    IF level = "Low" THEN "rec-low" ELSE IF level = "Moderate" THEN "rec-moderate" ELSE "rec-high"

\* displayResults(result) with its three helpers, run in the language lang: the card as
\* it is left, and whether an exception ended the rendering early
displayResults(card, result, lang) ==
    LET shown == [card EXCEPT !.display = "block",
                              !.riskText = translations(lang, riskKeys(result.risk_level))]
        badged == [shown EXCEPT !.riskClass = toLowerCase(result.risk_level)]
        gauged == [badged EXCEPT !.gauge = round(result.confidence),
                                 !.gaugeColor = gaugeColor(result.risk_level)]
        barred == [gauged EXCEPT !.bars = result.probabilities]
        done == [barred EXCEPT !.recommendations =
                                   translations(lang, recommendationVariant(result.risk_level))]
    IN  IF result.risk_level = "" THEN [card |-> shown, threw |-> TRUE]
        ELSE IF result.probabilities = << >> THEN [card |-> gauged, threw |-> TRUE]
        ELSE [card |-> done, threw |-> FALSE]

(***************************************************************************)
(* The body mass index.  Weights are whole kilograms and heights whole     *)
(* centimetres.  The code computes weight / ((height / 100) * (height /    *)
(* 100)) in double precision; the model keeps the exact fraction weight *  *)
(* 10000 / height^2 as numerator and denominator, and where the exact      *)
(* fraction sits on a band limit or half-way between two tenths it follows *)
(* the side the double falls on.                                           *)
(***************************************************************************)
\* the heights of HeightInputs whose square in metres is rounded up by the double
\* multiplication ((160 / 100) * (160 / 100) is 2.5600000000000005): the quotient of a
\* weight by such a square is below the exact fraction.  For the height 165 no whole
\* weight puts the fraction on a band limit or half-way between two tenths
SquareRoundsUp == {160}

\* bmi < limit for the double bmi of the exact fraction num / den, limit = lnum / lden
Below(num, den, lnum, lden, low) ==
    \/ num * lden < lnum * den
    \/ low /\ num * lden = lnum * den

\* bmi.toFixed(1) in tenths, den > 0: the nearest tenth, an exact tie going away from
\* zero; a double that is just short of the tie goes towards zero
toFixed1(num, den, low) ==
    LET mag == IF num < 0 THEN -num ELSE num
        tie == (20 * mag) % (2 * den) = den
        n == IF tie /\ low THEN (20 * mag) \div (2 * den)
             ELSE (20 * mag + den) \div (2 * den)
    IN  IF num < 0 THEN -n ELSE n

\* a band selection that takes 35 for the limit between overweight and obese
statusKey_ObeseFrom35(num, den, low) ==
    IF Below(num, den, 37, 2, low) THEN "bmi-underweight"
    ELSE IF Below(num, den, 25, 1, low) THEN "bmi-normal"
    ELSE IF Below(num, den, 35, 1, low) THEN "bmi-overweight"
    ELSE "bmi-obese"

\* the band of the index
statusKey(num, den, low) ==
    IF Below(num, den, 37, 2, low) THEN "bmi-underweight"
    ELSE IF Below(num, den, 25, 1, low) THEN "bmi-normal"
    ELSE IF Below(num, den, 30, 1, low) THEN "bmi-overweight"
    ELSE "bmi-obese"

className(key) ==
    CASE key = "bmi-normal" -> "normal"
      [] key = "bmi-obese" -> "danger"
      [] OTHER -> "warning"

\* calculateBMI() on the inputs w and h in the language lang: what is shown afterwards,
\* given what was shown before.  parseFloat of an empty input is NaN, which is falsy and
\* not greater than 0; a negative weight is truthy
calculateBMI(shown, w, h, lang) ==
    IF w # << >> /\ w[1] # 0 /\ h # << >> /\ h[1] > 0
    THEN LET num == w[1] * 10000
             den == h[1] * h[1]
             low == h[1] \in SquareRoundsUp
             key == statusKey(num, den, low)
         IN  [value |-> << toFixed1(num, den, low) >>,
              status |-> << translations(lang, key), className(key) >>]
    ELSE shown

\* an updateLanguage that writes the table entry whether or not the table has the key
updateLanguage_OverwritesMissing(tagged, lang) ==
    [k \in DOMAIN tagged |-> translations(lang, k)]

\* updateLanguage() over the tagged elements: a key the table lacks leaves its element
\* as it is
updateLanguage(tagged, lang) ==
    [k \in DOMAIN tagged |-> IF HasKey(lang, k) THEN translations(lang, k) ELSE tagged[k]]

\* the content toggleLabInputs and switchLanguage give the model indicator
indicatorText(lab, lang) ==
    translations(lang, IF lab THEN "model-full" ELSE "model-basic")

(***************************************************************************)
(* Start-up: the channel callback assigns backend and runs initializeApp.  *)
(***************************************************************************)
\* a start-up that runs initializeApp when the page has loaded and assigns backend only
\* when the channel callback comes
ChannelConnected_InitializesAtLoad ==
    /\ Tick
    /\ ~backend
    /\ IF ~handlers
       THEN /\ handlers' = TRUE
            /\ backend' = backend
            /\ storedLanguage' = currentLanguage
            /\ taggedText' = updateLanguage(taggedText, currentLanguage)
            /\ bmi' = calculateBMI(bmi, weight, height, currentLanguage)
            /\ ev' = Event("", "", FALSE)
       ELSE /\ backend' = TRUE
            /\ ev' = Event("", "connected", FALSE)
            /\ UNCHANGED << handlers, storedLanguage, taggedText, bmi >>
    /\ UNCHANGED << currentLanguage, activeViews, btn, currentAssessment, patientId,
                    resultsCard, assessQ, idQ, saveQ, pdfQ, historyQ, dashQ, aboutTimers,
                    historyTable, dashboard, labAvailable, modelIndicator, weight, height,
                    fields, assessed >>

ChannelConnected ==
    /\ Tick
    /\ ~backend
    /\ backend' = TRUE
    /\ handlers' = TRUE
    /\ storedLanguage' = currentLanguage
    /\ taggedText' = updateLanguage(taggedText, currentLanguage)
    /\ bmi' = calculateBMI(bmi, weight, height, currentLanguage)
    /\ ev' = Event("", "connected", FALSE)
    /\ UNCHANGED << currentLanguage, activeViews, btn, currentAssessment, patientId,
                    resultsCard, assessQ, idQ, saveQ, pdfQ, historyQ, dashQ, aboutTimers,
                    historyTable, dashboard, labAvailable, modelIndicator, weight, height,
                    fields, assessed >>

(***************************************************************************)
(* Reading the numeric inputs.                                             *)
(***************************************************************************)
\* parseFloat(input.value), in the unit of the input
parseFloat(v) == IF v = << >> THEN NaN ELSE v[1]

\* parseInt(input.value) of an input in tenths: the digits before the decimal point
parseInt(v) ==
    IF v = << >> THEN NaN
    ELSE IF v[1] < 0 THEN -(((-v[1]) \div 10) * 10) ELSE (v[1] \div 10) * 10

\* x || d for a number x: NaN and 0 are falsy
OrDefault(x, d) == IF x = NaN \/ x = 0 THEN d ELSE x

\* the eight arguments calculateRisk reads from the form
MeasurementInput ==
    [age |-> parseFloat(fields["age"]), weight |-> parseFloat(weight),
     height |-> parseFloat(height), systolic |-> parseFloat(fields["systolic"]),
     diastolic |-> parseFloat(fields["diastolic"]),
     bloodSugar |-> parseFloat(fields["blood-sugar"]),
     hemoglobin |-> parseFloat(fields["hemoglobin"]), labAvailable |-> labAvailable]

(***************************************************************************)
(* Risk assessment workflow.                                               *)
(***************************************************************************)
\* calculateRisk without line 532: the control stays enabled while the request is out
CalculateRisk_LeavesEnabled ==
    /\ Tick
    /\ handlers
    /\ ~btn["calculate-btn"].disabled
    /\ InFlight < MaxInFlight
    /\ btn' = [btn EXCEPT !["calculate-btn"] =
                    [disabled |-> FALSE,
                     text |-> translations(currentLanguage, "btn-calculating")]]
    /\ assessQ' = Append(assessQ, [method |-> "assess_risk", args |-> MeasurementInput])
    /\ ev' = Event("", "", FALSE)
    /\ UNCHANGED << formVars, assessed, backend, handlers, currentLanguage, storedLanguage, activeViews,
                    currentAssessment, patientId, resultsCard, idQ, saveQ, pdfQ, historyQ,
                    dashQ, aboutTimers, historyTable, dashboard >>

CalculateRisk ==
    /\ Tick
    /\ handlers
    /\ ~btn["calculate-btn"].disabled
    /\ InFlight < MaxInFlight
    /\ IF backend
       THEN /\ btn' = [btn EXCEPT !["calculate-btn"] =
                           [disabled |-> TRUE,
                            text |-> translations(currentLanguage, "btn-calculating")]]
            /\ assessQ' = Append(assessQ, [method |-> "assess_risk", args |-> MeasurementInput])
            /\ ev' = Event("", "", FALSE)
       ELSE /\ btn' = [btn EXCEPT !["calculate-btn"] =
                           [disabled |-> FALSE,
                            text |-> translations(currentLanguage, "btn-calculate")]]
            /\ assessQ' = assessQ
            /\ ev' = Event("Error calculating risk", "", FALSE)
    /\ UNCHANGED << formVars, assessed, backend, handlers, currentLanguage, storedLanguage, activeViews,
                    currentAssessment, patientId, resultsCard, idQ, saveQ, pdfQ, historyQ,
                    dashQ, aboutTimers, historyTable, dashboard >>

\* a scoring callback that sends the request again when the backend declares an error
AssessRiskResponse_RetriesOnError(i, resp) ==
    /\ Tick
    /\ i \in 1..Len(assessQ)
    /\ LET idle == [btn EXCEPT !["calculate-btn"] =
                        [disabled |-> FALSE,
                         text |-> translations(currentLanguage, "btn-calculate")]]
           shown == displayResults(resultsCard, resp.json, currentLanguage)
       IN  IF ~Parses(resp)
           THEN /\ ev' = Event("", "", TRUE)
                /\ assessQ' = RemoveAt(assessQ, i)
                /\ UNCHANGED << btn, currentAssessment, assessed, resultsCard >>
           ELSE IF resp.json.error # ""
           THEN /\ ev' = Event("", "retrying", FALSE)
                /\ assessQ' = Append(RemoveAt(assessQ, i),
                                     [method |-> "assess_risk", args |-> assessQ[i].args])
                /\ UNCHANGED << btn, currentAssessment, assessed, resultsCard >>
           ELSE /\ currentAssessment' = << resp.json >>
                /\ assessed' = << assessQ[i].args >>
                /\ assessQ' = RemoveAt(assessQ, i)
                /\ resultsCard' = shown.card
                /\ btn' = (IF shown.threw THEN btn ELSE idle)
                /\ ev' = Event("", "", shown.threw)
    /\ UNCHANGED << formVars, backend, handlers, currentLanguage, storedLanguage, activeViews,
                    patientId, idQ, saveQ, pdfQ, historyQ, dashQ, aboutTimers,
                    historyTable, dashboard >>

\* the callback passed to backend.assess_risk, delivered the response resp
AssessRiskResponse(i, resp) ==
    /\ Tick
    /\ i \in 1..Len(assessQ)
    /\ assessQ' = RemoveAt(assessQ, i)
    /\ LET idle == [btn EXCEPT !["calculate-btn"] =
                        [disabled |-> FALSE,
                         text |-> translations(currentLanguage, "btn-calculate")]]
           shown == displayResults(resultsCard, resp.json, currentLanguage)
       IN  IF ~Parses(resp)
           THEN /\ ev' = Event("", "", TRUE)
                /\ UNCHANGED << btn, currentAssessment, assessed, resultsCard >>
           ELSE IF resp.json.error # ""
           THEN /\ ev' = Event("Error: backend message", "", FALSE)
                /\ btn' = idle
                /\ UNCHANGED << currentAssessment, assessed, resultsCard >>
           ELSE /\ currentAssessment' = << resp.json >>
                /\ assessed' = << assessQ[i].args >>
                /\ resultsCard' = shown.card
                /\ btn' = (IF shown.threw THEN btn ELSE idle)
                /\ ev' = Event("", "", shown.threw)
    /\ UNCHANGED << formVars, backend, handlers, currentLanguage, storedLanguage, activeViews,
                    patientId, idQ, saveQ, pdfQ, historyQ, dashQ, aboutTimers,
                    historyTable, dashboard >>

(***************************************************************************)
(* Persistence workflow.                                                   *)
(***************************************************************************)
\* String(x) of a field that may be missing
String(x) == IF x = "" THEN "undefined" ELSE x

\* the record proceedWithSave sends: the resolved id, the clinical fields read from the
\* form as it is now, and the fields taken from result
assessmentData(id, result) ==
    LET healthWorker == IF trim(fields["health-worker"]) = << >> THEN NA
                        ELSE trim(fields["health-worker"])
    IN  [patient_id |-> id,
         health_worker |-> healthWorker,
         age |-> OrDefault(parseInt(fields["age"]), 250),
         bmi |-> OrDefault(result.bmi, 0),
         systolic |-> OrDefault(parseFloat(fields["systolic"]), 1200),
         diastolic |-> OrDefault(parseFloat(fields["diastolic"]), 800),
         blood_sugar |-> OrDefault(parseFloat(fields["blood-sugar"]), 0),
         hemoglobin |-> OrDefault(parseFloat(fields["hemoglobin"]), 0),
         risk_level |-> String(result.risk_level),
         confidence |-> OrDefault(result.confidence, 0),
         model_used |-> String(result.model_used),
         lab_available |-> result.lab_available]

proceedWithSave(id, result) ==
    saveQ' = Append(saveQ, [method |-> "save_assessment", data |-> assessmentData(id, result)])

SaveAssessment ==
    /\ Tick
    /\ handlers
    /\ ~btn["save-btn"].disabled
    /\ InFlight < MaxInFlight
    /\ IF currentAssessment = << >>
       THEN /\ ev' = Event("No assessment to save", "", FALSE)
            /\ UNCHANGED << idQ, saveQ >>
       ELSE LET result == currentAssessment[1]
                patientIdInput == trim(patientId)
            IN  IF ~backend
                THEN /\ ev' = Event("", "", TRUE)
                     /\ UNCHANGED << idQ, saveQ >>
                ELSE IF patientIdInput = << >> \/ patientIdInput = NA
                THEN /\ idQ' = Append(idQ, [method |-> "generate_patient_id",
                                            result |-> result, scored |-> assessed])
                     /\ saveQ' = saveQ
                     /\ ev' = Event("", "generating auto ID", FALSE)
                ELSE /\ proceedWithSave(patientIdInput, result)
                     /\ idQ' = idQ
                     /\ ev' = Event("", "saving", FALSE)
    /\ UNCHANGED << formVars, assessed, backend, handlers, currentLanguage, storedLanguage, activeViews, btn,
                    currentAssessment, patientId, resultsCard, assessQ, pdfQ, historyQ,
                    dashQ, aboutTimers, historyTable, dashboard >>

\* an id callback that saves under the fixed fallback whenever generation did not succeed,
\* also when the failure record carries an id
GeneratePatientIdResponse_IgnoresBackendId(i, resp) ==
    /\ Tick
    /\ i \in 1..Len(idQ)
    /\ idQ' = RemoveAt(idQ, i)
    /\ IF ~Parses(resp)
       THEN /\ ev' = Event("Error generating Patient ID. Please enter manually.",
                           "error parsing", FALSE)
            /\ UNCHANGED << patientId, saveQ >>
       ELSE LET id == IF resp.json.success /\ resp.json.patient_id # << >>
                      THEN resp.json.patient_id ELSE FallbackId
            IN  /\ patientId' = id
                /\ proceedWithSave(id, idQ[i].result)
                /\ ev' = Event("", "generated", FALSE)
    /\ UNCHANGED << formVars, assessed, backend, handlers, currentLanguage, storedLanguage, activeViews, btn,
                    currentAssessment, resultsCard, assessQ, pdfQ, historyQ, dashQ,
                    aboutTimers, historyTable, dashboard >>

\* an id callback that saves under the resolved id without writing it to the input
GeneratePatientIdResponse_KeepsField(i, resp) ==
    /\ Tick
    /\ i \in 1..Len(idQ)
    /\ idQ' = RemoveAt(idQ, i)
    /\ patientId' = patientId
    /\ IF ~Parses(resp)
       THEN /\ ev' = Event("Error generating Patient ID. Please enter manually.",
                           "error parsing", FALSE)
            /\ saveQ' = saveQ
       ELSE LET id == IF resp.json.patient_id # << >>
                      THEN resp.json.patient_id ELSE FallbackId
            IN  /\ proceedWithSave(id, idQ[i].result)
                /\ ev' = Event("", "generated", FALSE)
    /\ UNCHANGED << formVars, assessed, backend, handlers, currentLanguage, storedLanguage,
                    activeViews, btn, currentAssessment, resultsCard, assessQ, pdfQ,
                    historyQ, dashQ, aboutTimers, historyTable, dashboard >>

\* an id callback that saves under the fixed fallback when the response does not parse
GeneratePatientIdResponse_FallbackOnMalformed(i, resp) ==
    /\ Tick
    /\ i \in 1..Len(idQ)
    /\ idQ' = RemoveAt(idQ, i)
    /\ LET id == IF Parses(resp) /\ resp.json.patient_id # << >>
                  THEN resp.json.patient_id ELSE FallbackId
       IN  /\ patientId' = id
           /\ proceedWithSave(id, idQ[i].result)
           /\ ev' = Event("", IF Parses(resp) THEN "generated" ELSE "fallback", FALSE)
    /\ UNCHANGED << formVars, assessed, backend, handlers, currentLanguage, storedLanguage, activeViews, btn,
                    currentAssessment, resultsCard, assessQ, pdfQ, historyQ, dashQ,
                    aboutTimers, historyTable, dashboard >>

\* the callback passed to backend.generate_patient_id, delivered the response resp
GeneratePatientIdResponse(i, resp) ==
    /\ Tick
    /\ i \in 1..Len(idQ)
    /\ idQ' = RemoveAt(idQ, i)
    /\ LET result == idQ[i].result
           idResult == resp.json
       IN  IF ~Parses(resp)
           THEN /\ ev' = Event("Error generating Patient ID. Please enter manually.",
                               "error parsing", FALSE)
                /\ UNCHANGED << patientId, saveQ >>
           ELSE IF idResult.success /\ idResult.patient_id # << >>
           THEN /\ patientId' = idResult.patient_id
                /\ proceedWithSave(idResult.patient_id, result)
                /\ ev' = Event("", "generated", FALSE)
           ELSE LET fallbackId == IF idResult.patient_id # << >>
                                  THEN idResult.patient_id ELSE FallbackId
                IN  /\ patientId' = fallbackId
                    /\ proceedWithSave(fallbackId, result)
                    /\ ev' = Event("", "fallback", FALSE)
    /\ UNCHANGED << formVars, assessed, backend, handlers, currentLanguage, storedLanguage, activeViews, btn,
                    currentAssessment, resultsCard, assessQ, pdfQ, historyQ, dashQ,
                    aboutTimers, historyTable, dashboard >>

\* how the save_assessment callback reports a response
\* a callback that reads an empty response as the record {}
SaveOutcome_EmptyIsRecord(resp) ==
    IF resp.text \in {"empty", "blank"} THEN "error saving"
    ELSE IF ~Parses(resp) THEN "critical"
    ELSE IF resp.json.kind = "null" THEN "critical"
    ELSE IF resp.json.success THEN "saved"
    ELSE "error saving"

SaveOutcome(resp) ==
    IF resp.text \in {"empty", "blank"} THEN "critical"
    ELSE IF ~Parses(resp) THEN "critical"
    ELSE IF resp.json.kind = "null" THEN "critical"
    ELSE IF resp.json.success THEN "saved"
    ELSE "error saving"

\* the callback passed to backend.save_assessment, delivered the response resp
SaveAssessmentResponse(i, resp) ==
    /\ Tick
    /\ i \in 1..Len(saveQ)
    /\ saveQ' = RemoveAt(saveQ, i)
    /\ ev' = Event("", SaveOutcome(resp), FALSE)
    /\ UNCHANGED << formVars, assessed, backend, handlers, currentLanguage, storedLanguage, activeViews, btn,
                    currentAssessment, patientId, resultsCard, assessQ, idQ, pdfQ,
                    historyQ, dashQ, aboutTimers, historyTable, dashboard >>

(***************************************************************************)
(* Reporting workflow.                                                     *)
(***************************************************************************)
\* printReport that disables its control before it checks for a current assessment
PrintReport_DisablesFirst ==
    /\ Tick
    /\ handlers
    /\ ~btn["print-btn"].disabled
    /\ InFlight < MaxInFlight
    /\ btn' = [btn EXCEPT !["print-btn"] = [disabled |-> TRUE, text |-> GeneratingLabel]]
    /\ IF currentAssessment = << >>
       THEN /\ ev' = Event("No assessment to print", "", FALSE)
            /\ pdfQ' = pdfQ
       ELSE /\ pdfQ' = Append(pdfQ, [method |-> "generate_pdf_report",
                                     originalText |-> btn["print-btn"].text])
            /\ ev' = Event("", "", FALSE)
    /\ UNCHANGED << formVars, assessed, backend, handlers, currentLanguage, storedLanguage, activeViews,
                    currentAssessment, patientId, resultsCard, assessQ, idQ, saveQ,
                    historyQ, dashQ, aboutTimers, historyTable, dashboard >>

\* printReport without line 806: the control stays enabled while the request is out
PrintReport_LeavesEnabled ==
    /\ Tick
    /\ handlers
    /\ ~btn["print-btn"].disabled
    /\ InFlight < MaxInFlight
    /\ IF currentAssessment = << >>
       THEN /\ ev' = Event("No assessment to print", "", FALSE)
            /\ UNCHANGED << btn, pdfQ >>
       ELSE /\ btn' = [btn EXCEPT !["print-btn"] =
                           [disabled |-> FALSE, text |-> GeneratingLabel]]
            /\ pdfQ' = Append(pdfQ, [method |-> "generate_pdf_report",
                                     originalText |-> btn["print-btn"].text])
            /\ ev' = Event("", "", FALSE)
    /\ UNCHANGED << formVars, assessed, backend, handlers, currentLanguage, storedLanguage, activeViews,
                    currentAssessment, patientId, resultsCard, assessQ, idQ, saveQ,
                    historyQ, dashQ, aboutTimers, historyTable, dashboard >>

PrintReport ==
    /\ Tick
    /\ handlers
    /\ ~btn["print-btn"].disabled
    /\ InFlight < MaxInFlight
    /\ IF currentAssessment = << >>
       THEN /\ ev' = Event("No assessment to print", "", FALSE)
            /\ UNCHANGED << btn, pdfQ >>
       ELSE /\ btn' = [btn EXCEPT !["print-btn"] =
                           [disabled |-> TRUE, text |-> GeneratingLabel]]
            /\ IF backend
               THEN /\ pdfQ' = Append(pdfQ, [method |-> "generate_pdf_report",
                                             originalText |-> btn["print-btn"].text])
                    /\ ev' = Event("", "", FALSE)
               ELSE /\ pdfQ' = pdfQ
                    /\ ev' = Event("", "", TRUE)
    /\ UNCHANGED << formVars, assessed, backend, handlers, currentLanguage, storedLanguage, activeViews,
                    currentAssessment, patientId, resultsCard, assessQ, idQ, saveQ,
                    historyQ, dashQ, aboutTimers, historyTable, dashboard >>

\* the callback passed to backend.generate_pdf_report, delivered the response resp
GeneratePdfResponse(i, resp) ==
    /\ Tick
    /\ i \in 1..Len(pdfQ)
    /\ pdfQ' = RemoveAt(pdfQ, i)
    /\ IF ~Parses(resp)
       THEN /\ ev' = Event("", "", TRUE)
            /\ btn' = btn
       ELSE /\ ev' = Event(IF resp.json.success THEN "PDF Report Generated"
                           ELSE "Error generating PDF", "", FALSE)
            /\ btn' = [btn EXCEPT !["print-btn"] =
                           [disabled |-> FALSE, text |-> pdfQ[i].originalText]]
    /\ UNCHANGED << formVars, assessed, backend, handlers, currentLanguage, storedLanguage, activeViews,
                    currentAssessment, patientId, resultsCard, assessQ, idQ, saveQ,
                    historyQ, dashQ, aboutTimers, historyTable, dashboard >>

(***************************************************************************)
(* Form.                                                                   *)
(***************************************************************************)
\* the user types v into the patient id field
EditPatientId(v) ==
    /\ Tick
    /\ handlers
    /\ patientId' = v
    /\ ev' = Event("", "", FALSE)
    /\ UNCHANGED << formVars, assessed, backend, handlers, currentLanguage, storedLanguage, activeViews, btn,
                    currentAssessment, resultsCard, assessQ, idQ, saveQ, pdfQ, historyQ,
                    dashQ, aboutTimers, historyTable, dashboard >>

\* the values newAssessment puts into the inputs
NewFields ==
    [f \in FieldNames |->
        CASE f = "health-worker" -> << >>
          [] f = "age" -> << 250 >>
          [] f = "systolic" -> << 1200 >>
          [] f = "diastolic" -> << 800 >>
          [] f = "blood-sugar" -> << 55 >>
          [] f = "hemoglobin" -> << 120 >>]

\* a newAssessment that abandons the scoring in progress: it re-enables the calculate control
NewAssessment_ResetsControl ==
    /\ Tick
    /\ handlers
    /\ patientId' = << >>
    /\ fields' = NewFields
    /\ weight' = << 60 >>
    /\ height' = << 160 >>
    /\ labAvailable' = TRUE
    /\ resultsCard' = [resultsCard EXCEPT !.display = "none"]
    /\ bmi' = calculateBMI(bmi, << 60 >>, << 160 >>, currentLanguage)
    /\ btn' = [btn EXCEPT !["calculate-btn"] =
                    [disabled |-> FALSE,
                     text |-> translations(currentLanguage, "btn-calculate")]]
    /\ ev' = Event("", "", FALSE)
    /\ UNCHANGED << taggedText, modelIndicator, assessed, backend, handlers, currentLanguage,
                    storedLanguage, activeViews, currentAssessment, assessQ, idQ, saveQ,
                    pdfQ, historyQ, dashQ, aboutTimers, historyTable, dashboard >>

\* a newAssessment that also forgets the current assessment
NewAssessment_ClearsSlot ==
    /\ Tick
    /\ handlers
    /\ patientId' = << >>
    /\ fields' = NewFields
    /\ weight' = << 60 >>
    /\ height' = << 160 >>
    /\ labAvailable' = TRUE
    /\ currentAssessment' = << >>
    /\ assessed' = << >>
    /\ resultsCard' = [resultsCard EXCEPT !.display = "none"]
    /\ bmi' = calculateBMI(bmi, << 60 >>, << 160 >>, currentLanguage)
    /\ ev' = Event("", "", FALSE)
    /\ UNCHANGED << taggedText, modelIndicator, backend, handlers, currentLanguage,
                    storedLanguage, activeViews, btn, assessQ, idQ, saveQ, pdfQ, historyQ,
                    dashQ, aboutTimers, historyTable, dashboard >>

\* newAssessment(): the patient fields are cleared, the measurements are put back to
\* their defaults, the laboratory checkbox is checked (no change event is raised, so the
\* model indicator stays), the results card is hidden and the BMI is computed again
NewAssessment ==
    /\ Tick
    /\ handlers
    /\ patientId' = << >>
    /\ fields' = NewFields
    /\ weight' = << 60 >>
    /\ height' = << 160 >>
    /\ labAvailable' = TRUE
    /\ resultsCard' = [resultsCard EXCEPT !.display = "none"]
    /\ bmi' = calculateBMI(bmi, << 60 >>, << 160 >>, currentLanguage)
    /\ ev' = Event("", "", FALSE)
    /\ UNCHANGED << taggedText, modelIndicator, assessed, backend, handlers, currentLanguage,
                    storedLanguage, activeViews, btn, currentAssessment, assessQ, idQ,
                    saveQ, pdfQ, historyQ, dashQ, aboutTimers, historyTable, dashboard >>

(***************************************************************************)
(* Localization.                                                           *)
(***************************************************************************)
\* switchLanguage without the test of line 315: the page is rendered again in any case
SwitchLanguage_NoGuard(lang) ==
    /\ Tick
    /\ handlers
    /\ currentLanguage' = lang
    /\ taggedText' = updateLanguage(taggedText, lang)
    /\ storedLanguage' = lang
    /\ modelIndicator' = indicatorText(labAvailable, lang)
    /\ bmi' = (IF bmi.status # << >>
               THEN calculateBMI(bmi, weight, height, lang) ELSE bmi)
    /\ ev' = Event("", "", FALSE)
    /\ UNCHANGED << fields, assessed, backend, handlers, activeViews, btn, currentAssessment, patientId,
                    resultsCard, assessQ, idQ, saveQ, pdfQ, historyQ, dashQ, aboutTimers,
                    historyTable, dashboard, labAvailable, weight, height >>

\* switchLanguage(lang): updateLanguage re-resolves the tagged texts and stores the
\* preference, then the model indicator and a displayed BMI status are rendered again
SwitchLanguage(lang) ==
    /\ Tick
    /\ handlers
    /\ IF lang = currentLanguage
       THEN UNCHANGED << currentLanguage, storedLanguage, taggedText, modelIndicator, bmi >>
       ELSE /\ currentLanguage' = lang
            /\ taggedText' = updateLanguage(taggedText, lang)
            /\ storedLanguage' = lang
            /\ modelIndicator' = indicatorText(labAvailable, lang)
            /\ bmi' = (IF bmi.status # << >>
                       THEN calculateBMI(bmi, weight, height, lang) ELSE bmi)
    /\ ev' = Event("", "", FALSE)
    /\ UNCHANGED << fields, assessed, backend, handlers, activeViews, btn, currentAssessment, patientId,
                    resultsCard, assessQ, idQ, saveQ, pdfQ, historyQ, dashQ, aboutTimers,
                    historyTable, dashboard, labAvailable, weight, height >>

(***************************************************************************)
(* The measurement inputs.                                                 *)
(***************************************************************************)
WeightInputs ==
    { << >>, << 0 >>, << -5 >>, << 45 >>, << 60 >>, << 64 >>, << 68 >>, << 80 >> }

HeightInputs == { << >>, << 0 >>, << 160 >>, << 165 >> }

\* the user changes the weight input to w: the input handler runs calculateBMI
EditWeight(w) ==
    /\ Tick
    /\ handlers
    /\ w # weight
    /\ weight' = w
    /\ bmi' = calculateBMI(bmi, w, height, currentLanguage)
    /\ ev' = Event("", "", FALSE)
    /\ UNCHANGED << fields, assessed, backend, handlers, currentLanguage, storedLanguage, activeViews, btn,
                    currentAssessment, patientId, resultsCard, assessQ, idQ, saveQ, pdfQ,
                    historyQ, dashQ, aboutTimers, historyTable, dashboard, taggedText,
                    labAvailable, modelIndicator, height >>

\* the user changes the height input to h
EditHeight(h) ==
    /\ Tick
    /\ handlers
    /\ h # height
    /\ height' = h
    /\ bmi' = calculateBMI(bmi, weight, h, currentLanguage)
    /\ ev' = Event("", "", FALSE)
    /\ UNCHANGED << fields, assessed, backend, handlers, currentLanguage, storedLanguage, activeViews, btn,
                    currentAssessment, patientId, resultsCard, assessQ, idQ, saveQ, pdfQ,
                    historyQ, dashQ, aboutTimers, historyTable, dashboard, taggedText,
                    labAvailable, modelIndicator, weight >>

\* what the user may type into the input f: for the name of the health worker a blank
\* and a name, for a numeric input zero and 31.7, for the age also nothing
FieldInputs(f) ==
    IF f = "health-worker" THEN { << " " >>, << " ", "D", "r" >> }
    ELSE IF f = "age" THEN { << >>, << 0 >>, << 317 >> }
    ELSE { << 0 >>, << 317 >> }

\* the user changes the input f of the initialised page to v; no handler is registered
\* on these inputs
EditField(f, v) ==
    /\ Tick
    /\ handlers
    /\ v # fields[f]
    /\ fields' = [fields EXCEPT ![f] = v]
    /\ ev' = Event("", "", FALSE)
    /\ UNCHANGED << assessed, backend, handlers, currentLanguage, storedLanguage,
                    activeViews, btn, currentAssessment, patientId, resultsCard, assessQ,
                    idQ, saveQ, pdfQ, historyQ, dashQ, aboutTimers, historyTable,
                    dashboard, taggedText, labAvailable, modelIndicator, weight, height,
                    bmi >>

\* the user flips the laboratory checkbox: the change handler runs toggleLabInputs
ToggleLabInputs ==
    /\ Tick
    /\ handlers
    /\ labAvailable' = ~labAvailable
    /\ modelIndicator' = indicatorText(~labAvailable, currentLanguage)
    /\ ev' = Event("", "", FALSE)
    /\ UNCHANGED << fields, assessed, backend, handlers, currentLanguage, storedLanguage, activeViews, btn,
                    currentAssessment, patientId, resultsCard, assessQ, idQ, saveQ, pdfQ,
                    historyQ, dashQ, aboutTimers, historyTable, dashboard, taggedText,
                    weight, height, bmi >>

(***************************************************************************)
(* View navigation with the entry actions of the views.                    *)
(***************************************************************************)
HistoryResponses ==
    { [text |-> "json", json |-> HistoryJson(1, TRUE)],
      [text |-> "json", json |-> HistoryJson(2, TRUE)],
      [text |-> "json", json |-> HistoryJson(3, FALSE)],
      [text |-> "garbage", json |-> NoJson] }

StatsResponses ==
    { [text |-> "json", json |-> StatsJson("", 1, 1, 1, 1)],
      [text |-> "json", json |-> StatsJson("", 2, 2, 2, 2)],
      [text |-> "json", json |-> StatsJson("", 3, 0, 3, 3)],
      [text |-> "json", json |-> StatsJson("", 4, 4, 0, 4)],
      [text |-> "json", json |-> StatsJson("database locked", 0, 0, 0, 0)],
      [text |-> "garbage", json |-> NoJson] }

\* a request of a fetch as it is issued; newest tells that no later request of the same
\* fetch has been issued since, which the page itself does not record
Request(method) == [method |-> method, newest |-> TRUE]

\* the requests already outstanding when one more of the same fetch is issued
Superseded(q) == [k \in 1..Len(q) |-> [q[k] EXCEPT !.newest = FALSE]]

\* switchView without the loop of lines 458-460: the earlier view stays active
activate_KeepsOthers(views, viewName) == views \cup {viewName}

\* classList.remove('active') on every view, then classList.add('active') on the chosen one
activate(views, viewName) == (views \ Views) \cup {viewName}

\* a switchView that fetches only when no request of the view's fetch is outstanding
SwitchView_Debounced(viewName) ==
    /\ Tick
    /\ handlers
    /\ viewName = "form" \/ InFlight < MaxInFlight
    /\ activeViews' = activate(activeViews, viewName)
    /\ historyQ' = (IF viewName = "history" /\ backend /\ historyQ = << >>
                    THEN Append(historyQ, Request("load_history"))
                    ELSE historyQ)
    /\ dashQ' = (IF viewName = "dashboard" /\ backend /\ dashQ = << >>
                 THEN Append(dashQ, Request("get_dashboard_stats"))
                 ELSE dashQ)
    /\ aboutTimers' = (IF viewName = "about" THEN aboutTimers + 1 ELSE aboutTimers)
    /\ ev' = Event("", "", FALSE)
    /\ UNCHANGED << formVars, assessed, backend, handlers, currentLanguage, storedLanguage, btn,
                    currentAssessment, patientId, resultsCard, assessQ, idQ, saveQ, pdfQ,
                    historyTable, dashboard >>

SwitchView(viewName) ==
    /\ Tick
    /\ handlers
    /\ viewName = "form" \/ InFlight < MaxInFlight
    /\ activeViews' = activate(activeViews, viewName)
    /\ historyQ' = (IF viewName = "history" /\ backend
                    THEN Append(Superseded(historyQ), Request("load_history"))
                    ELSE historyQ)
    /\ dashQ' = (IF viewName = "dashboard" /\ backend
                 THEN Append(Superseded(dashQ), Request("get_dashboard_stats"))
                 ELSE dashQ)
    /\ aboutTimers' = (IF viewName = "about" THEN aboutTimers + 1 ELSE aboutTimers)
    /\ ev' = Event("", IF viewName = "dashboard" /\ ~backend THEN "Backend not initialized"
                       ELSE "", viewName = "history" /\ ~backend)
    /\ UNCHANGED << formVars, assessed, backend, handlers, currentLanguage, storedLanguage, btn,
                    currentAssessment, patientId, resultsCard, assessQ, idQ, saveQ, pdfQ,
                    historyTable, dashboard >>

\* the callback passed to backend.load_history, delivered the response resp
LoadHistoryResponse(i, resp) ==
    /\ Tick
    /\ i \in 1..Len(historyQ)
    /\ historyQ' = RemoveAt(historyQ, i)
    /\ IF Parses(resp) /\ resp.json.wellFormed
       THEN /\ historyTable' = resp.json.data
            /\ ev' = Event("", "", FALSE)
       ELSE /\ historyTable' = historyTable
            /\ ev' = Event("", "", TRUE)
    /\ UNCHANGED << formVars, assessed, backend, handlers, currentLanguage, storedLanguage, activeViews, btn,
                    currentAssessment, patientId, resultsCard, assessQ, idQ, saveQ, pdfQ,
                    dashQ, aboutTimers, dashboard >>

(***************************************************************************)
(* The charts.  A handle is "null", "live" or "destroyed"; d.live counts,  *)
(* per canvas, the chart objects constructed and not destroyed.            *)
(***************************************************************************)
\* chart.destroy() on the object a handle holds; destroying an object again removes nothing
destroy(d, handle, canvas) ==
    IF d[handle] = "live"
    THEN [d EXCEPT ![handle] = "destroyed", !.live[canvas] = @ - 1]
    ELSE d

\* handle = new Chart(ctx, ...)
newChart(d, handle, canvas) == [d EXCEPT ![handle] = "live", !.live[canvas] = @ + 1]

\* updateRiskPieChart without lines 919-921: the chart held before is not destroyed
updateRiskPieChart_NoDestroy(d, riskDist) ==
    IF riskDist = 0 THEN [dashboard |-> d, threw |-> TRUE]
    ELSE [dashboard |-> newChart([d EXCEPT !.pieData = riskDist], "riskPieChart", "pie"),
          threw |-> FALSE]

\* updateRiskPieChart(riskDist): the dashboard as it is left, and whether reading the
\* missing aggregate ended the function by an exception
updateRiskPieChart(d, riskDist) ==
    LET cleared == IF d.riskPieChart # "null" THEN destroy(d, "riskPieChart", "pie") ELSE d
    IN  IF riskDist = 0 THEN [dashboard |-> cleared, threw |-> TRUE]
        ELSE [dashboard |-> newChart([cleared EXCEPT !.pieData = riskDist],
                                     "riskPieChart", "pie"),
              threw |-> FALSE]

updateWeeklyLineChart(d, weeklyData) ==
    LET cleared == IF d.weeklyLineChart # "null"
                   THEN destroy(d, "weeklyLineChart", "weekly") ELSE d
    IN  IF weeklyData = 0 THEN [dashboard |-> cleared, threw |-> TRUE]
        ELSE [dashboard |-> newChart([cleared EXCEPT !.weeklyData = weeklyData],
                                     "weeklyLineChart", "weekly"),
              threw |-> FALSE]

\* the rows of the aggregate, or the one row telling that there is no data
updateRiskFactorsTable(d, riskFactors) == [d EXCEPT !.factors = riskFactors]

initFeatureImportanceChart(d) ==
    LET cleared == IF d.featureImportanceChart # "null"
                   THEN destroy(d, "featureImportanceChart", "feature") ELSE d
    IN  newChart(cleared, "featureImportanceChart", "feature")

\* the callback passed to backend.get_dashboard_stats, delivered the response resp
DashboardStatsResponse(i, resp) ==
    /\ Tick
    /\ i \in 1..Len(dashQ)
    /\ dashQ' = RemoveAt(dashQ, i)
    /\ LET stats == resp.json
           carded == [dashboard EXCEPT !.cards = stats.total]
           pied == updateRiskPieChart(carded, stats.risk_distribution)
           lined == updateWeeklyLineChart(pied.dashboard, stats.weekly_assessments)
           tabled == updateRiskFactorsTable(lined.dashboard, stats.risk_factors)
       IN  IF ~Parses(resp)
           THEN /\ dashboard' = dashboard
                /\ ev' = Event("", "error parsing", FALSE)
           ELSE IF stats.error # ""
           THEN /\ dashboard' = dashboard
                /\ ev' = Event("", "error loading", FALSE)
           ELSE IF pied.threw
           THEN /\ dashboard' = pied.dashboard
                /\ ev' = Event("", "error parsing", FALSE)
           ELSE IF lined.threw
           THEN /\ dashboard' = lined.dashboard
                /\ ev' = Event("", "error parsing", FALSE)
           ELSE /\ dashboard' = tabled
                /\ ev' = Event("", "", FALSE)
    /\ UNCHANGED << formVars, assessed, backend, handlers, currentLanguage, storedLanguage, activeViews, btn,
                    currentAssessment, patientId, resultsCard, assessQ, idQ, saveQ, pdfQ,
                    historyQ, aboutTimers, historyTable >>

\* the timer set on entering About runs initFeatureImportanceChart
AboutTimerFires ==
    /\ Tick
    /\ aboutTimers > 0
    /\ aboutTimers' = aboutTimers - 1
    /\ dashboard' = initFeatureImportanceChart(dashboard)
    /\ ev' = Event("", "", FALSE)
    /\ UNCHANGED << formVars, assessed, backend, handlers, currentLanguage, storedLanguage, activeViews, btn,
                    currentAssessment, patientId, resultsCard, assessQ, idQ, saveQ, pdfQ,
                    historyQ, dashQ, historyTable >>

(***************************************************************************)
(* The specification.                                                      *)
(***************************************************************************)
Next ==
    \/ ChannelConnected
    \/ CalculateRisk
    \/ \E i \in 1..Len(assessQ), resp \in AssessResponses : AssessRiskResponse(i, resp)
    \/ SaveAssessment
    \/ \E i \in 1..Len(idQ), resp \in IdResponses : GeneratePatientIdResponse(i, resp)
    \/ \E i \in 1..Len(saveQ), resp \in SaveResponses : SaveAssessmentResponse(i, resp)
    \/ PrintReport
    \/ \E i \in 1..Len(pdfQ), resp \in PdfResponses : GeneratePdfResponse(i, resp)
    \/ \E v \in PatientIdInputs : EditPatientId(v)
    \/ NewAssessment
    \/ \E lang \in Languages : SwitchLanguage(lang)
    \/ \E viewName \in Views : SwitchView(viewName)
    \/ \E i \in 1..Len(historyQ), resp \in HistoryResponses : LoadHistoryResponse(i, resp)
    \/ \E i \in 1..Len(dashQ), resp \in StatsResponses : DashboardStatsResponse(i, resp)
    \/ AboutTimerFires

Spec == Init /\ [][Next]_vars

(***************************************************************************)
(* The page whose host registered no backend object: the channel callback  *)
(* ran, channel.objects.backend was undefined, and initializeApp           *)
(* registered the handlers all the same.  No request can be issued.        *)
(***************************************************************************)
InitNoBackend ==
    /\ backend = FALSE
    /\ handlers = TRUE
    /\ currentLanguage \in Languages
    /\ storedLanguage = currentLanguage
    /\ activeViews = {MarkupView}
    /\ btn = [c \in Controls |-> MarkupButton(c)]
    /\ currentAssessment = << >>
    /\ patientId = << >>
    /\ resultsCard = MarkupResultsCard
    /\ assessQ = << >>
    /\ idQ = << >>
    /\ saveQ = << >>
    /\ pdfQ = << >>
    /\ historyQ = << >>
    /\ dashQ = << >>
    /\ aboutTimers = 0
    /\ historyTable = 0
    /\ dashboard = MarkupDashboard
    /\ taggedText = updateLanguage(MarkupTagged, currentLanguage)
    /\ labAvailable = MarkupLabAvailable
    /\ modelIndicator = MarkupIndicator
    /\ weight = MarkupInput
    /\ height = MarkupInput
    /\ bmi = MarkupBmi
    /\ fields = [f \in FieldNames |-> MarkupInput]
    /\ assessed = << >>
    /\ ev = Event("", "connected", FALSE)
    /\ steps = 0

NextNoBackend ==
    \/ CalculateRisk
    \/ SaveAssessment
    \/ PrintReport
    \/ \E v \in PatientIdInputs : EditPatientId(v)
    \/ NewAssessment
    \/ \E lang \in Languages : SwitchLanguage(lang)
    \/ \E viewName \in Views : SwitchView(viewName)
    \/ AboutTimerFires

SpecNoBackend == InitNoBackend /\ [][NextNoBackend]_vars

(***************************************************************************)
(* The measurement form and the localization on their own: the start-up,   *)
(* the language switch, and the handlers of the measurement inputs.        *)
(***************************************************************************)
\* the scoring workflow alone, with the wider set of responses
NextScore ==
    \/ ChannelConnected
    \/ CalculateRisk
    \/ \E i \in 1..MaxInFlight, resp \in ScoreResponses : AssessRiskResponse(i, resp)
    \/ \E lang \in Languages : SwitchLanguage(lang)
    \/ NewAssessment

SpecScore == Init /\ [][NextScore]_vars

\* the scoring and the persistence workflow with the edits of the clinical inputs
NextSave ==
    \/ ChannelConnected
    \/ \E f \in FieldNames : \E v \in FieldInputs(f) : EditField(f, v)
    \/ CalculateRisk
    \/ \E i \in 1..MaxInFlight, resp \in AssessResponses : AssessRiskResponse(i, resp)
    \/ SaveAssessment
    \/ \E i \in 1..MaxInFlight, resp \in IdResponses : GeneratePatientIdResponse(i, resp)
    \/ \E i \in 1..MaxInFlight, resp \in SaveResponses : SaveAssessmentResponse(i, resp)
    \/ NewAssessment

SpecSave == Init /\ [][NextSave]_vars

NextForm ==
    \/ ChannelConnected
    \/ \E lang \in Languages : SwitchLanguage(lang)
    \/ \E w \in WeightInputs : EditWeight(w)
    \/ \E h \in HeightInputs : EditHeight(h)
    \/ ToggleLabInputs

SpecForm == Init /\ [][NextForm]_vars

(***************************************************************************)
(* Properties.                                                             *)
(***************************************************************************)
CalcBtn == btn["calculate-btn"]
SaveBtn == btn["save-btn"]
PrintBtn == btn["print-btn"]

\* the request a step has just appended to a queue
Newest(q) == q[Len(q)]

\* the step appends exactly one request to the queue q (q before, r after)
IssuesOne(q, r) == Len(r) = Len(q) + 1 /\ SubSeq(r, 1, Len(q)) = q

\* C1: on every exit path of calculateRisk the calculate control is enabled again: once
\* no assess_risk request is outstanding (the response was delivered, or the request
\* was never sent) the control is enabled.
C1_ControlEnabledOnEveryExit == Len(assessQ) = 0 => ~CalcBtn.disabled

\* C2: at most one assess_risk request is outstanding, and the calculate control is
\* disabled whenever one is, whatever else is interleaved.
C2_OneScoringRequest ==
    /\ Len(assessQ) <= 1
    /\ Len(assessQ) = 1 => CalcBtn.disabled

\* a scoring request is outstanding while a report is being generated and another view
\* has been entered
C2_Witness ==
    /\ Len(assessQ) = 1
    /\ Len(pdfQ) = 1
    /\ activeViews # {"form"}
    /\ CalcBtn.disabled

\* C3: the current-assessment slot is empty initially; a step changes it only if it is
\* the callback of an assess_risk response that parses and carries no error field, and
\* that callback stores the whole response record; no other step changes the slot.
C3_SlotWrittenOnlyByScoring ==
    /\ currentAssessment = << >>
    /\ [][/\ currentAssessment' # currentAssessment =>
                \E i \in 1..Len(assessQ), resp \in AssessResponses :
                    /\ AssessRiskResponse(i, resp)
                    /\ Parses(resp)
                    /\ resp.json.error = ""
          /\ \A i \in 1..Len(assessQ), resp \in AssessResponses :
                AssessRiskResponse(i, resp) =>
                    currentAssessment' = (IF Parses(resp) /\ resp.json.error = ""
                                          THEN << resp.json >> ELSE currentAssessment)
         ]_vars

\* a second result has replaced the first and survived a save and a new assessment
C3_Witness ==
    /\ currentAssessment = << ResultLow >>
    /\ resultsCard.riskClass = "low"
    /\ resultsCard.display = "none"
    /\ Len(saveQ) = 1
    /\ Newest(saveQ).data.risk_level = "High"

\* C4: with no current assessment, saveAssessment and printReport alert and return:
\* no backend request is issued and no control changes.
C4_NothingToSaveOrPrint ==
    [][(currentAssessment = << >> /\ (SaveAssessment \/ PrintReport)) =>
            /\ ev'.alert \in {"No assessment to save", "No assessment to print"}
            /\ UNCHANGED << assessQ, idQ, saveQ, pdfQ, historyQ, dashQ, aboutTimers, btn >>
      ]_vars

\* print was refused for want of an assessment
C4_Witness ==
    /\ currentAssessment = << >>
    /\ ev.alert = "No assessment to print"
    /\ ~PrintBtn.disabled
    /\ InFlight = 0

\* t is s without its leading and trailing white space
IsTrimOf(t, s) ==
    \E a, b \in 0..Len(s) :
        /\ a + b <= Len(s)
        /\ t = SubSeq(s, a + 1, Len(s) - b)
        /\ \A k \in 1..a : s[k] = " "
        /\ \A k \in (Len(s) - b + 1)..Len(s) : s[k] = " "
        /\ t = << >> \/ (t[1] # " " /\ t[Len(t)] # " ")

\* the patient id field, trimmed, is empty or the placeholder N/A
PlaceholderId(s) == IsTrimOf(<< >>, s) \/ IsTrimOf(<< "N", "/", "A" >>, s)

\* C5: saveAssessment with a current assessment: a patient id that is, trimmed, neither
\* empty nor 'N/A' issues no generate_patient_id request and exactly one save_assessment
\* request carrying the trimmed id; an empty or 'N/A' id issues exactly one
\* generate_patient_id request and no save_assessment request, and a save_assessment
\* request is issued by no step but these and the id callback.
C5_IdResolutionOnSave ==
    [][/\ (SaveAssessment /\ currentAssessment # << >>) =>
              IF PlaceholderId(patientId)
              THEN IssuesOne(idQ, idQ') /\ saveQ' = saveQ
              ELSE /\ idQ' = idQ
                   /\ IssuesOne(saveQ, saveQ')
                   /\ IsTrimOf(Newest(saveQ').data.patient_id, patientId)
       /\ Len(saveQ') > Len(saveQ) =>
              \/ SaveAssessment /\ ~PlaceholderId(patientId)
              \/ \E i \in 1..Len(idQ), resp \in IdResponses : GeneratePatientIdResponse(i, resp)
      ]_vars

\* a padded id was typed and saved without its padding, no id being generated
C5_Witness ==
    /\ patientId = << " ", "P", "7", " " >>
    /\ Len(saveQ) = 1
    /\ Newest(saveQ).data.patient_id = << "P", "7" >>
    /\ idQ = << >>
    /\ ev.log = "saving"

\* the id the callback of a parseable generate_patient_id response resolves to, for the
\* three cases the claim names
C6_Expected(idResult) ==
    IF idResult.patient_id # << >> THEN idResult.patient_id
    ELSE << "P", "-", "2", "0", "2", "5", "-", "0", "0", "0", "1" >>

\* C6: a parseable generate_patient_id response with success and an id, or with failure
\* and an id, resolves to that id verbatim; one with failure and no id resolves to
\* 'P-2025-0001'; the resolved id is written to the patient id field and exactly one
\* save_assessment request carrying it follows.
C6_GeneratedIdUsed ==
    [][\A i \in 1..Len(idQ), resp \in IdResponses :
          (/\ GeneratePatientIdResponse(i, resp)
           /\ Parses(resp)
           /\ ~(resp.json.success /\ resp.json.patient_id = << >>)) =>
              /\ patientId' = C6_Expected(resp.json)
              /\ IssuesOne(saveQ, saveQ')
              /\ Newest(saveQ').data.patient_id = C6_Expected(resp.json)
      ]_vars

\* a failure record that carries an id was delivered, and the save uses that id
C6_Witness ==
    /\ patientId = << "B", "9" >>
    /\ Len(saveQ) = 1
    /\ Newest(saveQ).data.patient_id = << "B", "9" >>
    /\ ev.log = "fallback"

C8_EveryControlDisabledWhileBusy ==
    /\ Len(idQ) + Len(saveQ) <= 1
    /\ Len(idQ) + Len(saveQ) = 1 => SaveBtn.disabled
    /\ Len(assessQ) <= 1
    /\ Len(assessQ) = 1 => CalcBtn.disabled
    /\ Len(pdfQ) <= 1
    /\ Len(pdfQ) = 1 => PrintBtn.disabled

\* C8 amended: the calculate and the print control are disabled while their request is
\* outstanding, so at most one assess_risk and one generate_pdf_report request are
\* outstanding; the save control is never disabled by its workflow.
C8_CalcAndPrintDisabledWhileBusy ==
    /\ Len(assessQ) <= 1
    /\ Len(assessQ) = 1 => CalcBtn.disabled
    /\ Len(pdfQ) <= 1
    /\ Len(pdfQ) = 1 => PrintBtn.disabled /\ PrintBtn.text = GeneratingLabel
    /\ ~SaveBtn.disabled

\* a report and a save are both in progress: print is disabled, save is not
C8_Witness ==
    /\ Len(pdfQ) = 1
    /\ Len(saveQ) = 1
    /\ PrintBtn.disabled
    /\ ~SaveBtn.disabled

\* C9: printReport with a current assessment leaves the print control disabled under
\* the generating label, and the delivery of the generate_pdf_report response, whatever
\* it is, leaves the control enabled under the label it had when printReport started.
C9_PrintControlRestored ==
    [][/\ (PrintReport /\ currentAssessment # << >>) =>
              PrintBtn'.disabled /\ PrintBtn'.text = << "literal", "Generating PDF..." >>
       /\ \A i \in 1..Len(pdfQ), resp \in PdfResponses :
              GeneratePdfResponse(i, resp) =>
                  ~PrintBtn'.disabled /\ PrintBtn'.text = pdfQ[i].originalText
      ]_vars

\* C10: exactly one of the four views is active in every state, Form initially;
\* switchView(v) leaves v the only active view, and no other step changes the active
\* view.
C10_ExactlyOneActiveView ==
    /\ activeViews = {"form"}
    /\ [](\E v \in {"form", "history", "dashboard", "about"} : activeViews = {v})
    /\ [][/\ \A v \in Views : SwitchView(v) => activeViews' = {v}
          /\ activeViews' # activeViews => \E v \in Views : SwitchView(v)
         ]_vars

\* About was entered from another view and its deferred chart has been drawn
C10_Witness ==
    /\ activeViews = {"about"}
    /\ dashboard.featureImportanceChart = "live"
    /\ historyTable = 1

(***************************************************************************)
(* C11  Entry actions are not debounced: every switchView to History issues *)
(* exactly one load_history request and every switchView to Dashboard      *)
(* exactly one get_dashboard_stats request, also when the view is already  *)
(* active or a request of it is outstanding; switchView to Form issues no  *)
(* request; switchView to About sets exactly one timer for the feature     *)
(* importance chart.  A switchView issues nothing else.                    *)
(***************************************************************************)
Issued(v, name) == IF v = name THEN 1 ELSE 0

C11_EntryActionsNotDebounced ==
    [][\A v \in Views : SwitchView(v) =>
          /\ Len(historyQ') = Len(historyQ) + Issued(v, "history")
          /\ Len(dashQ') = Len(dashQ) + Issued(v, "dashboard")
          /\ aboutTimers' = aboutTimers + Issued(v, "about")
          /\ << assessQ, idQ, saveQ, pdfQ >>' = << assessQ, idQ, saveQ, pdfQ >>]_vars

\* History was entered again while it was active and its first request was outstanding
C11_Witness == activeViews = {"history"} /\ Len(historyQ) = 2

(***************************************************************************)
(* C12  Re-entering a view ends up showing the latest data: when several   *)
(* load_history (or get_dashboard_stats) requests are outstanding, the     *)
(* response that is rendered last, once all of them are delivered, is the  *)
(* response to the most recently issued request.                           *)
(***************************************************************************)
C12_LatestDataShown ==
    [][/\ \A i \in 1..Len(historyQ), resp \in HistoryResponses :
             LoadHistoryResponse(i, resp) /\ historyQ' = << >> /\ historyTable' # historyTable
                 => historyQ[i].newest
       /\ \A i \in 1..Len(dashQ), resp \in StatsResponses :
             DashboardStatsResponse(i, resp) /\ dashQ' = << >> /\ dashboard' # dashboard
                 => dashQ[i].newest]_vars

(***************************************************************************)
(* C13  For each chart surface (risk distribution, weekly trend, feature   *)
(* importance) at most one chart that was created and not destroyed exists *)
(* in every reachable state, and every render of a surface leaves exactly  *)
(* the chart it constructed: the chart held before is destroyed first.     *)
(* This holds under any sequence of view entries and any order of the      *)
(* dashboard responses and the About timers.                               *)
(***************************************************************************)
HandleOf(canvas) ==
    CASE canvas = "pie" -> dashboard.riskPieChart
      [] canvas = "weekly" -> dashboard.weeklyLineChart
      [] canvas = "feature" -> dashboard.featureImportanceChart

C13_OneLiveChartPerSurface ==
    \A canvas \in {"pie", "weekly", "feature"} :
        /\ dashboard.live[canvas] <= 1
        /\ dashboard.live[canvas] = 1 <=> HandleOf(canvas) = "live"

\* the risk distribution chart was rendered twice: first by the response whose weekly
\* trend is still the one recorded, then by a later response, and one chart is alive
C13_Witness ==
    /\ dashboard.weeklyData = 1
    /\ dashboard.pieData = 4
    /\ dashboard.riskPieChart = "live"
    /\ dashboard.live["pie"] = 1

(***************************************************************************)
(* C14  The displayed dashboard is never partially updated: after any      *)
(* get_dashboard_stats callback either the summary cards, the risk         *)
(* distribution chart, the weekly trend chart and the risk factor table    *)
(* all reflect that one response, or (error record, unparseable response,  *)
(* response missing an aggregate) none of them has changed and every chart *)
(* that was live is still live.                                            *)
(***************************************************************************)
Reflects(d, stats) ==
    /\ d.cards = stats.total
    /\ d.pieData = stats.risk_distribution /\ d.riskPieChart = "live"
    /\ d.weeklyData = stats.weekly_assessments /\ d.weeklyLineChart = "live"
    /\ d.factors = stats.risk_factors

C14_DashboardNeverPartial ==
    [][\A i \in 1..Len(dashQ), resp \in StatsResponses :
          DashboardStatsResponse(i, resp) =>
              \/ dashboard' = dashboard
              \/ Parses(resp) /\ Reflects(dashboard', resp.json)]_vars

(***************************************************************************)
(* C15  With the backend bridge not initialised (backend is null) each of  *)
(* calculateRisk, saveAssessment, printReport, loadHistory and             *)
(* loadDashboard either does nothing or warns: none raises an uncaught     *)
(* exception and none leaves its trigger control disabled.                 *)
(***************************************************************************)
C15_UninitialisedBackendGuarded ==
    ~backend => ~ev.threw /\ \A c \in Controls : ~btn[c].disabled

(***************************************************************************)
(* C16  Every backend-declared error (a response that parses and carries   *)
(* an error indication) is surfaced to the user with the backend's message *)
(* and returns the workflow to idle with its control enabled, for each of  *)
(* assess_risk, save_assessment, generate_pdf_report and                   *)
(* get_dashboard_stats; for assess_risk the displayed result and the       *)
(* current assessment are left unchanged.                                  *)
(***************************************************************************)
C16_BackendErrorSurfaced ==
    [][/\ \A i \in 1..Len(assessQ), resp \in AssessResponses :
             AssessRiskResponse(i, resp) /\ Parses(resp) /\ resp.json.error # ""
                 => /\ ev'.alert # ""
                    /\ ~CalcBtn'.disabled
                    /\ UNCHANGED << resultsCard, currentAssessment >>
       /\ \A i \in 1..Len(saveQ), resp \in SaveResponses :
             SaveAssessmentResponse(i, resp) /\ Parses(resp) /\ resp.json.kind = "save"
                                             /\ ~resp.json.success
                 => ev'.alert # "" /\ ~SaveBtn'.disabled
       /\ \A i \in 1..Len(pdfQ), resp \in PdfResponses :
             GeneratePdfResponse(i, resp) /\ Parses(resp) /\ ~resp.json.success
                 => ev'.alert # "" /\ ~PrintBtn'.disabled
       /\ \A i \in 1..Len(dashQ), resp \in StatsResponses :
             DashboardStatsResponse(i, resp) /\ Parses(resp) /\ resp.json.error # ""
                 => ev'.alert # ""]_vars

(***************************************************************************)
(* C17  No failure is retried: each calculateRisk issues at most one       *)
(* assess_risk request, each printReport at most one generate_pdf_report,  *)
(* each saveAssessment at most one generate_patient_id and at most one     *)
(* save_assessment (the id callback passing on to the one save of its      *)
(* workflow), and no response of any kind makes a callback issue a further *)
(* request.                                                                *)
(***************************************************************************)
Outstanding ==
    [assess_risk |-> Len(assessQ), generate_patient_id |-> Len(idQ),
     save_assessment |-> Len(saveQ), generate_pdf_report |-> Len(pdfQ),
     load_history |-> Len(historyQ), get_dashboard_stats |-> Len(dashQ)]

Methods == DOMAIN Outstanding

\* the step issues one request of method m, or none, and no request of another method
AtMostOne(m) ==
    /\ Outstanding'[m] \in {Outstanding[m], Outstanding[m] + 1}
    /\ \A o \in Methods \ {m} : Outstanding'[o] = Outstanding[o]

\* the step takes one request of method m off and issues no request of a method in Methods
\* other than those in next, of which it issues at most one
Answers(m, next) ==
    /\ Outstanding'[m] = Outstanding[m] - 1
    /\ \A o \in Methods \ ({m} \cup next) : Outstanding'[o] = Outstanding[o]
    /\ \A o \in next : Outstanding'[o] \in {Outstanding[o], Outstanding[o] + 1}

C17_NoAutomaticRetry ==
    [][/\ CalculateRisk => AtMostOne("assess_risk")
       /\ PrintReport => AtMostOne("generate_pdf_report")
       /\ SaveAssessment =>
             AtMostOne("generate_patient_id") \/ AtMostOne("save_assessment")
       /\ (\E i \in 1..Len(idQ), resp \in IdResponses : GeneratePatientIdResponse(i, resp))
             => Answers("generate_patient_id", {"save_assessment"})
       /\ (\E i \in 1..Len(assessQ), resp \in AssessResponses : AssessRiskResponse(i, resp))
             => Answers("assess_risk", {})
       /\ (\E i \in 1..Len(saveQ), resp \in SaveResponses : SaveAssessmentResponse(i, resp))
             => Answers("save_assessment", {})
       /\ (\E i \in 1..Len(pdfQ), resp \in PdfResponses : GeneratePdfResponse(i, resp))
             => Answers("generate_pdf_report", {})
       /\ (\E i \in 1..Len(historyQ), resp \in HistoryResponses :
               LoadHistoryResponse(i, resp))
             => Answers("load_history", {})
       /\ (\E i \in 1..Len(dashQ), resp \in StatsResponses :
               DashboardStatsResponse(i, resp))
             => Answers("get_dashboard_stats", {})]_vars

\* a save ended on a response that was empty or unparseable, and nothing is outstanding
C17_Witness ==
    /\ ev.log = "critical"
    /\ \A m \in Methods : Outstanding[m] = 0

(***************************************************************************)
(* C18  The save_assessment response is classified into exactly one of     *)
(* three outcomes: success (parses, success true), backend-declared        *)
(* business error (parses, success false), transport/contract failure     *)
(* (empty, blank, or not parseable as the expected record).  An empty or   *)
(* unparseable response is never classified as success or as a business    *)
(* error, and no classification raises an uncaught exception.              *)
(***************************************************************************)
C18_Expected(resp) ==
    IF resp.text # "json" \/ resp.json.kind # "save" THEN "critical"
    ELSE IF resp.json.success THEN "saved"
    ELSE "error saving"

AssessAnswered == \E i \in 1..Len(assessQ), resp \in AssessResponses : AssessRiskResponse(i, resp)

PdfAnswered == \E i \in 1..Len(pdfQ), resp \in PdfResponses : GeneratePdfResponse(i, resp)

C19_HungRequestKeepsControlDisabled ==
    /\ [](assessQ # << >> => CalcBtn.disabled)
    /\ [](pdfQ # << >> => PrintBtn.disabled)
    /\ [][/\ assessQ # << >> /\ ~AssessAnswered => assessQ' = assessQ /\ CalcBtn'.disabled
          /\ pdfQ # << >> /\ ~PdfAnswered => pdfQ' = pdfQ /\ PrintBtn'.disabled]_vars

\* a scoring request and a report request are outstanding, their controls disabled, and
\* the user has gone on to edit the form
C19_Witness ==
    /\ Len(assessQ) = 1
    /\ Len(pdfQ) = 1
    /\ patientId # << >>
    /\ CalcBtn.disabled
    /\ PrintBtn.disabled

(***************************************************************************)
(* C20  switchLanguage is idempotent: invoked with the code that is        *)
(* already active it changes nothing that can be observed (the active      *)
(* code, the persisted preference, the text of every tagged element, the   *)
(* model indicator, the BMI label, nor anything else on the page), so a    *)
(* second switchLanguage(c) leaves the state the first one made.           *)
(***************************************************************************)
C20_SwitchLanguageIdempotent ==
    [][\A lang \in Languages :
          SwitchLanguage(lang) /\ lang = currentLanguage =>
              UNCHANGED << currentLanguage, storedLanguage, taggedText, modelIndicator, bmi,
                           labAvailable, weight, height, btn, resultsCard, activeViews,
                           patientId, currentAssessment, historyTable, dashboard >>]_vars

\* after the start-up the only handler that ran was a switchLanguage to the active code:
\* any other handler of the form would have changed an input or the model indicator
C20_Witness ==
    /\ handlers
    /\ steps = 2
    /\ taggedText = updateLanguage(MarkupTagged, currentLanguage)
    /\ storedLanguage = currentLanguage
    /\ modelIndicator = MarkupIndicator
    /\ labAvailable = MarkupLabAvailable
    /\ weight = MarkupInput
    /\ height = MarkupInput

(***************************************************************************)
(* C21  After switchLanguage(c) with c different from the active code the  *)
(* active code is c, the persisted preference is c, every tagged element   *)
(* whose key is in the table of c shows the table's string, every tagged   *)
(* element whose key the table lacks is unchanged, and no exception is     *)
(* raised.  Once the page is initialised the persisted preference always   *)
(* equals the active code.                                                 *)
(***************************************************************************)
C21_SwitchLanguageResolves ==
    /\ [](handlers => storedLanguage = currentLanguage)
    /\ [][\A lang \in Languages :
             SwitchLanguage(lang) /\ lang # currentLanguage =>
                 /\ currentLanguage' = lang
                 /\ storedLanguage' = lang
                 /\ \A k \in DOMAIN taggedText :
                        taggedText'[k] = (IF k \in TableKeys THEN translations(lang, k)
                                          ELSE taggedText[k])
                 /\ ~ev'.threw]_vars

\* the page started in English and the one handler run since was the switch to Filipino
\* (the model indicator is in Filipino with the checkbox untouched): the title is in
\* Filipino and the element with the unknown key still has the text of the markup
C21_Witness ==
    /\ steps = 2
    /\ currentLanguage = "fil"
    /\ storedLanguage = "fil"
    /\ labAvailable = MarkupLabAvailable
    /\ modelIndicator = indicatorText(MarkupLabAvailable, "fil")
    /\ taggedText["app-title"] = translations("fil", "app-title")
    /\ taggedText["footer-note"] = MarkupTagged["footer-note"]

(***************************************************************************)
(* C22  Whenever a BMI is displayed and the language is switched to a      *)
(* different code, afterwards the displayed band label is the new          *)
(* language's string for the displayed band and the displayed BMI value is *)
(* unchanged, also when the weight or the height has been edited to an     *)
(* empty or invalid value since the BMI was computed.                      *)
(***************************************************************************)
BandKeys == {"bmi-underweight", "bmi-normal", "bmi-overweight", "bmi-obese"}

\* the label shown is the string of the band key in some language
ShowsBand(shown, key) == \E l \in Languages : shown.status[1] = translations(l, key)

C22_BmiLabelFollowsLanguage ==
    [][\A lang \in Languages :
          SwitchLanguage(lang) /\ lang # currentLanguage /\ bmi.status # << >> =>
              /\ bmi'.value = bmi.value
              /\ \A key \in BandKeys :
                     ShowsBand(bmi, key) => bmi'.status[1] = translations(lang, key)]_vars

(***************************************************************************)
(* C23  For all weight > 0 and height > 0 calculateBMI shows the value     *)
(* weight / (height / 100)^2 to one decimal and the band of that value:    *)
(* below 18.5 Underweight, from 18.5 below 25 Normal, from 25 below 30     *)
(* Overweight, from 30 Obese, with the display class warning, normal,      *)
(* warning, danger; weight 60 and height 160 give 23.4 Normal, weight 45   *)
(* and height 160 give 17.6 Underweight.                                   *)
(***************************************************************************)
\* the band of the fraction num / den
ExactBand(num, den) ==
    IF 2 * num < 37 * den THEN "bmi-underweight"
    ELSE IF num < 25 * den THEN "bmi-normal"
    ELSE IF num < 30 * den THEN "bmi-overweight"
    ELSE "bmi-obese"

BandClass(key) ==
    IF key = "bmi-normal" THEN "normal" ELSE IF key = "bmi-obese" THEN "danger" ELSE "warning"

\* shown is what the claim requires for the weight w and the height h: a value within
\* half a tenth of the fraction, and the label and class of the fraction's band
ShowsIndexOf(shown, w, h, lang) ==
    LET num == w[1] * 10000
        den == h[1] * h[1]
        off == 10 * num - shown.value[1] * den
    IN  /\ shown.value # << >>
        /\ 2 * off <= den /\ -2 * off <= den
        /\ shown.status = << translations(lang, ExactBand(num, den)),
                             BandClass(ExactBand(num, den)) >>
        /\ (w = << 60 >> /\ h = << 160 >> =>
                shown.value = << 234 >> /\ shown.status[2] = "normal")
        /\ (w = << 45 >> /\ h = << 160 >> =>
                shown.value = << 176 >> /\ shown.status[2] = "warning")

Positive(v) == v # << >> /\ v[1] > 0

C23_BmiValueAndBand ==
    [][/\ \A w \in WeightInputs :
              EditWeight(w) /\ Positive(w) /\ Positive(height) =>
                  ShowsIndexOf(bmi', w, height, currentLanguage)
       /\ \A h \in HeightInputs :
              EditHeight(h) /\ Positive(weight) /\ Positive(h) =>
                  ShowsIndexOf(bmi', weight, h, currentLanguage)]_vars

(***************************************************************************)
(* C24  calculateBMI produces no output (the displayed value, band label   *)
(* and display class stay as they are) whenever the weight is absent, zero *)
(* or negative, or the height is absent or not positive.                   *)
(***************************************************************************)
C24_NoOutputOnInvalidInput ==
    [][/\ \A w \in WeightInputs :
              EditWeight(w) /\ (~Positive(w) \/ ~Positive(height)) => bmi' = bmi
       /\ \A h \in HeightInputs :
              EditHeight(h) /\ (~Positive(weight) \/ ~Positive(h)) => bmi' = bmi]_vars

(***************************************************************************)
(* C25  For every valid scoring response (risk level Low, Moderate or      *)
(* High, confidence and probabilities in 0..100) the gauge shows           *)
(* round(confidence), the three probability bars have the three            *)
(* probabilities unmodified, the badge class corresponds to the risk       *)
(* level and the recommendation block is the variant of the risk level;    *)
(* {High, 92, {3, 12, 85}} gives the High styling, gauge 92, high bar 85.  *)
(***************************************************************************)
Levels == {"Low", "Moderate", "High"}

LevelClass(level) ==
    IF level = "Low" THEN "low" ELSE IF level = "Moderate" THEN "moderate" ELSE "high"

LevelRecommendation(level) ==
    IF level = "Low" THEN "rec-low"
    ELSE IF level = "Moderate" THEN "rec-moderate" ELSE "rec-high"

Valid(resp) ==
    /\ Parses(resp)
    /\ resp.json.error = ""
    /\ resp.json.risk_level \in Levels
    /\ resp.json.confidence \in 0..1000
    /\ Len(resp.json.probabilities) = 3
    /\ \A k \in 1..3 : resp.json.probabilities[k] \in 0..100

\* g is the integer nearest to tenths / 10, the half going up
IsRounded(g, tenths) == 10 * g - 5 <= tenths /\ tenths < 10 * g + 5

C25_ValidResponseRendered ==
    [][\A i \in 1..MaxInFlight, resp \in ScoreResponses :
          AssessRiskResponse(i, resp) /\ Valid(resp) =>
              /\ resultsCard'.display = "block"
              /\ IsRounded(resultsCard'.gauge, resp.json.confidence)
              /\ resultsCard'.bars = resp.json.probabilities
              /\ resultsCard'.riskClass = LevelClass(resp.json.risk_level)
              /\ resultsCard'.recommendations =
                     translations(currentLanguage, LevelRecommendation(resp.json.risk_level))
              /\ (resp.json = ResultHigh =>
                      /\ resultsCard'.gauge = 92
                      /\ resultsCard'.bars[3] = 85
                      /\ resultsCard'.riskClass = "high")]_vars

\* the Moderate result with confidence 66.5 is displayed: gauge 67, bars 20 / 60 / 20
C25_Witness ==
    /\ currentAssessment = << ResultModerate >>
    /\ resultsCard.display = "block"
    /\ resultsCard.gauge = 67
    /\ resultsCard.bars = << 20, 60, 20 >>
    /\ resultsCard.riskClass = "moderate"

(***************************************************************************)
(* C30  Whenever a result is displayed, the risk badge class, the gauge    *)
(* colour and the recommendation variant all correspond to the same risk   *)
(* level, for every parseable non-error response, one whose risk_level is  *)
(* none of Low, Moderate and High included.                                *)
(***************************************************************************)
\* the three parts of the card are those of the level
StyledAs(card, level) ==
    /\ card.riskClass = LevelClass(level)
    /\ card.gaugeColor = level
    /\ \E lang \in Languages :
           card.recommendations = translations(lang, LevelRecommendation(level))

C30_CardPartsAgree ==
    resultsCard.display = "block" /\ resultsCard.riskClass # ""
        => \E level \in Levels : StyledAs(resultsCard, level)

(***************************************************************************)
(* C26  After a save workflow whose id-generation response was parseable   *)
(* the patient id field holds the resolved identifier, so a following      *)
(* saveAssessment, with no edit of the field and no newAssessment in       *)
(* between, issues no generate_patient_id request and sends the same       *)
(* patient_id; newAssessment leaves the field empty, and a save that finds *)
(* it empty issues a generate_patient_id request again.                    *)
(***************************************************************************)
\* the identifiers an id callback can resolve to
ResolvedIds ==
    { r.json.patient_id : r \in { x \in IdResponses : Parses(x) /\ x.json.patient_id # << >> } }
        \cup { << "P", "-", "2", "0", "2", "5", "-", "0", "0", "0", "1" >> }

CanSave == handlers /\ backend /\ currentAssessment # << >>

Carried(input, fallback) == IF input # << >> THEN input[1] ELSE fallback

\* the payload d is built from the form and the result r as the claim says
PayloadAsSpecified(d, r) ==
    /\ d.age = Carried(fields["age"], 250)
    /\ d.systolic = Carried(fields["systolic"], 1200)
    /\ d.diastolic = Carried(fields["diastolic"], 800)
    /\ d.blood_sugar = Carried(fields["blood-sugar"], 0)
    /\ d.hemoglobin = Carried(fields["hemoglobin"], 0)
    /\ (IsTrimOf(<< >>, fields["health-worker"]) => d.health_worker = << "N", "/", "A" >>)
    /\ d.confidence = r.confidence
    /\ d.lab_available = r.lab_available
    /\ (r.bmi # NaN => d.bmi = r.bmi)
    /\ (r.risk_level # "" => d.risk_level = r.risk_level)
    /\ (r.model_used # "" => d.model_used = r.model_used)

C27_FieldsDefaultedOnlyIfUnparseable ==
    [][/\ SaveAssessment /\ IssuesOne(saveQ, saveQ') =>
              PayloadAsSpecified(Newest(saveQ').data, currentAssessment[1])
       /\ \A i \in 1..MaxInFlight, resp \in IdResponses :
              GeneratePatientIdResponse(i, resp) /\ IssuesOne(saveQ, saveQ') =>
                  PayloadAsSpecified(Newest(saveQ').data, idQ[i].result)]_vars

(***************************************************************************)
(* C28  Every save_assessment payload is a consistent pair of measurement  *)
(* input and assessment result: its risk level, confidence, bmi and model  *)
(* id come from the result that was current when the save was triggered,   *)
(* and its age and clinical fields are the values that were submitted in   *)
(* the scoring request that produced that result, also when the form is    *)
(* edited, newAssessment is invoked or a new scoring result arrives while  *)
(* the generate_patient_id request is outstanding.                         *)
(***************************************************************************)
\* the payload field carries the submitted number x (a field submitted as NaN is
\* defaulted)
Same(x, y) == y # NaN => x = y

\* the payload d pairs the result r with the arguments a of the request r answered
ConsistentPair(d, r, a) ==
    /\ d.confidence = r.confidence
    /\ Same(d.bmi, r.bmi)
    /\ (r.risk_level # "" => d.risk_level = r.risk_level)
    /\ (r.model_used # "" => d.model_used = r.model_used)
    /\ Same(d.age, a.age)
    /\ Same(d.systolic, a.systolic)
    /\ Same(d.diastolic, a.diastolic)
    /\ Same(d.blood_sugar, a.bloodSugar)
    /\ Same(d.hemoglobin, a.hemoglobin)

C28_PayloadIsConsistentPair ==
    [][/\ SaveAssessment /\ IssuesOne(saveQ, saveQ') =>
              ConsistentPair(Newest(saveQ').data, currentAssessment[1], assessed[1])
       /\ \A i \in 1..MaxInFlight, resp \in IdResponses :
              GeneratePatientIdResponse(i, resp) /\ IssuesOne(saveQ, saveQ') =>
                  ConsistentPair(Newest(saveQ').data, idQ[i].result, idQ[i].scored[1])]_vars

(***************************************************************************)
(* C29  No user-triggered workflow runs while the backend bridge is        *)
(* uninitialised: the event handlers (navigation, calculate, save, print,  *)
(* new, language) are registered only inside initializeApp, which runs     *)
(* only after the channel callback has assigned backend, so in every       *)
(* reachable state in which a handler fires backend is assigned.           *)
(***************************************************************************)
\* one of the registered handlers runs
HandlerFires ==
    \/ \E v \in Views : SwitchView(v)
    \/ \E lang \in Languages : SwitchLanguage(lang)
    \/ CalculateRisk
    \/ SaveAssessment
    \/ PrintReport
    \/ NewAssessment

LevelLabel(level) ==
    IF level = "Low" THEN "risk-low"
    ELSE IF level = "Moderate" THEN "risk-moderate" ELSE "risk-high"

\* the badge label and the recommendation block of the card are those of some level in
\* the language lang
InLanguage(card, lang) ==
    \E level \in Levels :
        /\ card.riskText = translations(lang, LevelLabel(level))
        /\ card.recommendations = translations(lang, LevelRecommendation(level))

\* a result of one of the three levels is on display
ResultDisplayed ==
    /\ resultsCard.display = "block"
    /\ resultsCard.riskClass \in { LevelClass(level) : level \in Levels }

C31_ResultInActiveLanguage == ResultDisplayed => InLanguage(resultsCard, currentLanguage)

(***************************************************************************)
(* C32  The displayed band always agrees with the displayed one-decimal    *)
(* BMI value: applying the limits 18.5 / 25 / 30 to the value shown        *)
(* (rounded to one decimal place) yields the band shown.                   *)
(***************************************************************************)
\* the band of a value given in tenths
BandOfTenths(t) ==
    IF t < 185 THEN "bmi-underweight"
    ELSE IF t < 250 THEN "bmi-normal"
    ELSE IF t < 300 THEN "bmi-overweight"
    ELSE "bmi-obese"

\* the label and the class shown are those of the band key
ShownBandIs(key) == ShowsBand(bmi, key) /\ bmi.status[2] = BandClass(key)

C32_BandAgreesWithShownValue ==
    bmi.value # << >> => ShownBandIs(BandOfTenths(bmi.value[1]))

\* as amended: the band shown is that of the value shown, or the value shown is exactly
\* a limit (18.5, 25.0 or 30.0) and the band shown is the one below the limit, the value
\* computed having been rounded up onto the limit
C32_BandAgreesUnlessRoundedOntoLimit ==
    bmi.value # << >> =>
        \/ ShownBandIs(BandOfTenths(bmi.value[1]))
        \/ /\ bmi.value[1] \in {185, 250, 300}
           /\ ShownBandIs(BandOfTenths(bmi.value[1] - 1))

\* weight 68 and height 165 give 24.977...: the page shows 25.0 with the band Normal
C32_Witness ==
    /\ weight = << 68 >>
    /\ height = << 165 >>
    /\ bmi.value = << 250 >>
    /\ ShownBandIs("bmi-normal")

====
